---- MODULE Spec2Model ----
(***************************************************************************)
(* Model of the mentor-match server (src/server/index.js): the users,     *)
(* availability, abilities and matches tables, the register, find-matches *)
(* and cleanOldData operations, and the pure helpers findTimeOverlap and  *)
(* distributeMatches.                                                      *)
(*                                                                         *)
(* A time string "HH:MM" is a sequence of one-character strings, so that  *)
(* timeToMinutes (parsing) and minutesToTime (formatting) are modelled by *)
(* what they do.  A week key "YYYY-MM-DD" is the day number of that date  *)
(* (day 0 is a Sunday); comparing two such date strings is comparing the  *)
(* day numbers.  0 stands for an omitted weekKey (falsy in the source).   *)
(***************************************************************************)
EXTENDS Integers, Sequences, FiniteSets, TLC

VARIABLES
  users,         \* table users: set of rows [id, email, user_type]
  availability,  \* table availability: sequence of rows in rowid order
  abilities,     \* table abilities: sequence of rows in rowid order
  matches,       \* table matches: sequence of rows in rowid order
  nextId,        \* nextId[e]: number of the next uuid handed out for a new user of email e
  today,         \* day number of the current date (today % 7 = getDay())
  response,      \* the last response sent by a request handler
  arg,           \* input of the pure function under check
  out,           \* output of the pure function under check
  inflight       \* the requests that are served step by step: position and locals

vars == <<users, availability, abilities, matches, nextId, today, response, arg, out, inflight>>

dbVars == <<users, availability, abilities, matches, nextId, today, response>>

pureVars == <<arg, out, inflight>>

(***************************************************************************)
(* Bounds                                                                  *)
(***************************************************************************)
MaxSlots == 1      \* slots in one register request
MaxToday == 7      \* last day the clock reaches
MaxIds == 1        \* uuids handed out for one email
MaxMatches == 6    \* length of a raw candidate list given to distributeMatches
MaxStored == 3     \* availability rows of a stored snapshot given to find-matches
MaxInvites == 2    \* rows of the matches table
MaxDate == 60      \* last date given to the week key functions

(***************************************************************************)
(* Time strings                                                            *)
(***************************************************************************)
Digits == <<"0", "1", "2", "3", "4", "5", "6", "7", "8", "9">>

Min(a, b) == IF a < b THEN a ELSE b

Max(a, b) == IF a > b THEN a ELSE b

\* value of a one-character digit string
DigitVal(c) == (CHOOSE i \in 1..10 : Digits[i] = c) - 1

\* Number("09") = 9, Number("") = 0
RECURSIVE Number(_)
Number(s) ==
  IF s = <<>> THEN 0
  ELSE 10 * Number(SubSeq(s, 1, Len(s) - 1)) + DigitVal(s[Len(s)])

\* index of the first ":" of s, Len(s) + 1 when there is none
ColonPos(s) ==
  IF \E i \in 1..Len(s) : s[i] = ":"
  THEN CHOOSE i \in 1..Len(s) : s[i] = ":" /\ \A j \in 1..(i - 1) : s[j] # ":"
  ELSE Len(s) + 1

\* s.split(':'): the first two parts
SplitHours(s) == SubSeq(s, 1, ColonPos(s) - 1)

SplitMinutes(s) ==
  LET rest == SubSeq(s, ColonPos(s) + 1, Len(s))
  IN  SubSeq(rest, 1, ColonPos(rest) - 1)

timeToMinutes(timeStr) == Number(SplitHours(timeStr)) * 60 + Number(SplitMinutes(timeStr))

\* n.toString() for a natural number
RECURSIVE NumToString(_)
NumToString(n) ==
  IF n < 10 THEN <<Digits[n + 1]>>
  ELSE NumToString(n \div 10) \o <<Digits[(n % 10) + 1]>>

\* s.padStart(2, '0')
PadStart2(s) ==
  IF Len(s) >= 2 THEN s
  ELSE IF Len(s) = 1 THEN <<"0">> \o s
  ELSE <<"0", "0">>

\* minutesToTime without padStart
minutesToTimeNoPad(minutes) ==
  LET hours == minutes \div 60
      mins == minutes % 60
  IN  NumToString(hours) \o <<":">> \o NumToString(mins)

minutesToTime(minutes) ==
  LET hours == minutes \div 60
      mins == minutes % 60
  IN  PadStart2(NumToString(hours)) \o <<":">> \o PadStart2(NumToString(mins))

(***************************************************************************)
(* findTimeOverlap                                                         *)
(***************************************************************************)
NoOverlap == [isNull |-> TRUE, startTime |-> <<>>, endTime |-> <<>>, duration |-> 0]

\* findTimeOverlap with the earlier start and the later end
findTimeOverlapHull(slot1, slot2) ==
  LET start1 == timeToMinutes(slot1.start_time)
      end1 == timeToMinutes(slot1.end_time)
      start2 == timeToMinutes(slot2.start_time)
      end2 == timeToMinutes(slot2.end_time)
      overlapStart == Min(start1, start2)
      overlapEnd == Max(end1, end2)
  IN  IF overlapStart < overlapEnd
      THEN [isNull |-> FALSE,
            startTime |-> minutesToTime(overlapStart),
            endTime |-> minutesToTime(overlapEnd),
            duration |-> overlapEnd - overlapStart]
      ELSE NoOverlap

findTimeOverlap(slot1, slot2) ==
  LET start1 == timeToMinutes(slot1.start_time)
      end1 == timeToMinutes(slot1.end_time)
      start2 == timeToMinutes(slot2.start_time)
      end2 == timeToMinutes(slot2.end_time)
      overlapStart == Max(start1, start2)
      overlapEnd == Min(end1, end2)
  IN  IF overlapStart < overlapEnd
      THEN [isNull |-> FALSE,
            startTime |-> minutesToTime(overlapStart),
            endTime |-> minutesToTime(overlapEnd),
            duration |-> overlapEnd - overlapStart]
      ELSE NoOverlap

(***************************************************************************)
(* distributeMatches                                                       *)
(***************************************************************************)
\* a limit of 6
MatchLimitSix == 5 + 1

\* limit passed by both call sites of distributeMatches
MatchLimit == 5

\* minimum session length of a candidate, in minutes
MinDuration == 30

\* key = `${match.dayOfWeek}-${match.startTime}-${match.endTime}`
matchKey(match) == <<match.dayOfWeek, match.startTime, match.endTime>>

\* matches.forEach: keep the first match of every key
RECURSIVE uniqueMatchesOf(_)
uniqueMatchesOf(ms) ==
  IF ms = <<>> THEN <<>>
  ELSE LET front == SubSeq(ms, 1, Len(ms) - 1)
           last == ms[Len(ms)]
       IN  IF \E i \in 1..Len(front) : matchKey(front[i]) = matchKey(last)
           THEN uniqueMatchesOf(front)
           ELSE Append(uniqueMatchesOf(front), last)

\* dayGroups[d]: the unique matches of day d, in first-seen order
dayGroupsOf(uniqueMatches) ==
  [d \in {uniqueMatches[i].dayOfWeek : i \in 1..Len(uniqueMatches)} |->
     SelectSeq(uniqueMatches, LAMBDA m : m.dayOfWeek = d)]

\* the keys in descending order
RECURSIVE ObjectKeysDescending(_)
ObjectKeysDescending(keys) ==
  IF keys = {} THEN <<>>
  ELSE LET greatest == CHOOSE k \in keys : \A j \in keys : k >= j
       IN  <<greatest>> \o ObjectKeysDescending(keys \ {greatest})

\* Object.keys(o) of an object whose keys are integer-like: ascending order
RECURSIVE ObjectKeys(_)
ObjectKeys(keys) ==
  IF keys = {} THEN <<>>
  ELSE LET least == CHOOSE k \in keys : \A j \in keys : k <= j
       IN  <<least>> \o ObjectKeys(keys \ {least})

\* the loop with days.some in place of days.every in its break condition
RECURSIVE takeLoopSome(_, _, _, _, _, _)
takeLoopSome(result, dayGroups, days, dayIndex, limit, uniqueLen) ==
  IF ~(Len(result) < limit /\ Len(result) < uniqueLen) THEN result
  ELSE LET currentDay == days[(dayIndex % Len(days)) + 1]
           nonEmpty == Len(dayGroups[currentDay]) > 0
           result2 == IF nonEmpty THEN Append(result, Head(dayGroups[currentDay])) ELSE result
           dayGroups2 == IF nonEmpty
                         THEN [dayGroups EXCEPT ![currentDay] = Tail(@)]
                         ELSE dayGroups
       IN  IF \E d \in DOMAIN dayGroups2 : Len(dayGroups2[d]) = 0
           THEN result2
           ELSE takeLoopSome(result2, dayGroups2, days, dayIndex + 1, limit, uniqueLen)

\* the loop with dayIndex++ only after a day group is found empty
RECURSIVE takeLoopDayFirst(_, _, _, _, _, _)
takeLoopDayFirst(result, dayGroups, days, dayIndex, limit, uniqueLen) ==
  IF ~(Len(result) < limit /\ Len(result) < uniqueLen) THEN result
  ELSE LET currentDay == days[(dayIndex % Len(days)) + 1]
           nonEmpty == Len(dayGroups[currentDay]) > 0
           result2 == IF nonEmpty THEN Append(result, Head(dayGroups[currentDay])) ELSE result
           dayGroups2 == IF nonEmpty
                         THEN [dayGroups EXCEPT ![currentDay] = Tail(@)]
                         ELSE dayGroups
       IN  IF \A d \in DOMAIN dayGroups2 : Len(dayGroups2[d]) = 0
           THEN result2
           ELSE takeLoopDayFirst(result2, dayGroups2, days,
                                 IF nonEmpty THEN dayIndex ELSE dayIndex + 1, limit, uniqueLen)

\* the while loop of distributeMatches
RECURSIVE takeLoop(_, _, _, _, _, _)
takeLoop(result, dayGroups, days, dayIndex, limit, uniqueLen) ==
  IF ~(Len(result) < limit /\ Len(result) < uniqueLen) THEN result
  ELSE LET currentDay == days[(dayIndex % Len(days)) + 1]
           nonEmpty == Len(dayGroups[currentDay]) > 0
           result2 == IF nonEmpty THEN Append(result, Head(dayGroups[currentDay])) ELSE result
           dayGroups2 == IF nonEmpty
                         THEN [dayGroups EXCEPT ![currentDay] = Tail(@)]
                         ELSE dayGroups
       IN  IF \A d \in DOMAIN dayGroups2 : Len(dayGroups2[d]) = 0
           THEN result2
           ELSE takeLoop(result2, dayGroups2, days, dayIndex + 1, limit, uniqueLen)

distributeMatches(ms, limit) ==
  IF Len(ms) <= limit THEN ms
  ELSE LET uniqueMatches == uniqueMatchesOf(ms)
           dayGroups == dayGroupsOf(uniqueMatches)
           days == ObjectKeys(DOMAIN dayGroups)
       IN  takeLoop(<<>>, dayGroups, days, 0, limit, Len(uniqueMatches))

(***************************************************************************)
(* The database and the request handlers                                   *)
(***************************************************************************)
\* now.getDay(): 0 = Sunday
getDay(date) == date % 7

\* getCurrentWeekKey(): the date of now minus now.getDay() days
getCurrentWeekKey == today - getDay(today)

oppositeTypeOf(userType) == IF userType = "mentor" THEN "mentee" ELSE "mentor"

\* uuidv4(): every call gives an id of its own; the k-th id handed out for a
\* new user of an email is named by the email and k
uuid(email, k) == <<email, k>>

\* a missing userId
NoUserId == <<>>

\* SELECT ... FROM users WHERE email = ? / WHERE id = ?
userByEmail(email) == {u \in users : u.email = email}

userById(id) == {u \in users : u.id = id}

\* a DELETE that removes no row
deleteRowsOfNone(table, userId) == table

\* DELETE FROM <table> WHERE user_id = ?
deleteRowsOf(table, userId) == SelectSeq(table, LAMBDA r : r.user_id # userId)

\* availability.forEach(slot => availabilityStmt.run(...))
availabilityRows(userId, slots, currentWeekKey) ==
  [i \in 1..Len(slots) |->
     [user_id |-> userId,
      day_of_week |-> slots[i].dayOfWeek,
      start_time |-> slots[i].startTime,
      end_time |-> slots[i].endTime,
      week_key |-> IF slots[i].weekKey # 0 THEN slots[i].weekKey ELSE currentWeekKey]]

\* abilities.forEach(ability => abilitiesStmt.run(...)), for a mentor only
abilityRows(userId, userType, tags, currentWeekKey) ==
  IF userType = "mentor" /\ Len(tags) > 0
  THEN [i \in 1..Len(tags) |->
          [user_id |-> userId, ability |-> tags[i], week_key |-> currentWeekKey]]
  ELSE <<>>

\* the filter with <= in place of <: the current week counts as past
pastSlotsOrCurrent(slots, currentWeekKey) ==
  SelectSeq(slots, LAMBDA slot : slot.weekKey # 0 /\ slot.weekKey <= currentWeekKey)

\* availability.filter(slot => slot.weekKey && slot.weekKey < currentWeekKey)
pastSlots(slots, currentWeekKey) ==
  SelectSeq(slots, LAMBDA slot : slot.weekKey # 0 /\ slot.weekKey < currentWeekKey)

\* app.post('/api/register'); email "" stands for a missing field
Register(email, userType, slots, tags) ==
  LET currentWeekKey == getCurrentWeekKey
      existing == userByEmail(email)
      userIdToUse == IF existing # {} THEN (CHOOSE u \in existing : TRUE).id
                     ELSE uuid(email, nextId[email])
  IN  /\ (email # "" /\ existing = {}) => nextId[email] <= MaxIds
      /\ IF email = ""
         THEN /\ response' = [op |-> "register", status |-> 400, userId |-> NoUserId]
              /\ UNCHANGED <<users, availability, abilities, nextId>>
         ELSE IF Len(pastSlots(slots, currentWeekKey)) > 0
         THEN /\ response' = [op |-> "register", status |-> 400, userId |-> NoUserId]
              /\ UNCHANGED <<users, availability, abilities, nextId>>
         ELSE /\ users' = (users \ existing) \cup
                            {[id |-> userIdToUse, email |-> email, user_type |-> userType]}
              /\ nextId' = IF existing # {} THEN nextId
                           ELSE [nextId EXCEPT ![email] = @ + 1]
              /\ availability' = deleteRowsOf(availability, userIdToUse)
                                   \o availabilityRows(userIdToUse, slots, currentWeekKey)
              /\ abilities' = deleteRowsOf(abilities, userIdToUse)
                                \o abilityRows(userIdToUse, userType, tags, currentWeekKey)
              /\ response' = [op |-> "register", status |-> 200, userId |-> userIdToUse]
      /\ UNCHANGED <<matches, today, arg, out, inflight>>

\* cleanOldData() without the DELETE FROM users
CleanOldDataKeepingUsers ==
  LET currentWeekKey == getCurrentWeekKey
  IN  /\ availability' = SelectSeq(availability, LAMBDA r : ~(r.week_key < currentWeekKey))
      /\ abilities' = SelectSeq(abilities, LAMBDA r : ~(r.week_key < currentWeekKey))
      /\ response' = [op |-> "cleanOldData", status |-> 0, userId |-> NoUserId]
      /\ UNCHANGED <<users, matches, nextId, today, arg, out, inflight>>

\* cleanOldData()
CleanOldData ==
  LET currentWeekKey == getCurrentWeekKey
      keptAvailability == SelectSeq(availability, LAMBDA r : ~(r.week_key < currentWeekKey))
      keptUserIds == {keptAvailability[i].user_id : i \in 1..Len(keptAvailability)}
  IN  /\ availability' = keptAvailability
      /\ abilities' = SelectSeq(abilities, LAMBDA r : ~(r.week_key < currentWeekKey))
      /\ users' = {u \in users : u.id \in keptUserIds}
      /\ response' = [op |-> "cleanOldData", status |-> 0, userId |-> NoUserId]
      /\ UNCHANGED <<matches, nextId, today, arg, out, inflight>>

\* the passing of a day
Tick ==
  /\ today < MaxToday
  /\ today' = today + 1
  /\ UNCHANGED <<users, availability, abilities, matches, nextId, response, arg, out, inflight>>

\* the availability queries without the condition on week_key
notPastAnyWeek(row, currentWeekKey) == TRUE

\* the condition week_key >= ? of the availability queries
notPast(row, currentWeekKey) == row.week_key >= currentWeekKey

\* SELECT * FROM availability WHERE user_id = ? AND week_key >= ?
userAvailabilityOf(userId, currentWeekKey) ==
  SelectSeq(availability, LAMBDA r : r.user_id = userId /\ notPast(r, currentWeekKey))

\* the orders in which ORDER BY week_key ASC may return rows: ascending in
\* week_key, rows of one week_key in any order
orderedByWeekKey(rows) ==
  {[i \in 1..Len(rows) |-> rows[f[i]]] :
     f \in {g \in [1..Len(rows) -> 1..Len(rows)] :
              /\ \A i, j \in 1..Len(rows) : i # j => g[i] # g[j]
              /\ \A i \in 2..Len(rows) : rows[g[i - 1]].week_key <= rows[g[i]].week_key}}

\* availability.map(slot => ({dayOfWeek, startTime, endTime, weekKey}))
transformedAvailability(rows) ==
  [i \in 1..Len(rows) |->
     [dayOfWeek |-> rows[i].day_of_week,
      startTime |-> rows[i].start_time,
      endTime |-> rows[i].end_time,
      weekKey |-> rows[i].week_key]]

\* the responses that app.post('/api/check-email') may send
checkEmailResponses(email) ==
  LET found == userByEmail(email)
      user == CHOOSE u \in found : TRUE
      currentWeekKey == getCurrentWeekKey
  IN  IF email = ""
      THEN {[op |-> "check-email", status |-> 400, email |-> email, error |-> "Email is required"]}
      ELSE IF found = {}
      THEN {[op |-> "check-email", status |-> 200, email |-> email,
             exists |-> FALSE, availability |-> <<>>, userType |-> "null"]}
      ELSE {[op |-> "check-email", status |-> 200, email |-> email,
             exists |-> TRUE, availability |-> transformedAvailability(rows),
             userType |-> user.user_type] :
              rows \in orderedByWeekKey(userAvailabilityOf(user.id, currentWeekKey))}

\* app.post('/api/check-email')
CheckEmail(email) ==
  /\ response' \in checkEmailResponses(email)
  /\ UNCHANGED <<users, availability, abilities, matches, nextId, today, arg, out, inflight>>

\* SELECT a.*, u.email, u.user_type FROM availability a JOIN users u ON a.user_id = u.id
\* WHERE u.user_type = ? AND a.week_key >= ?
otherAvailabilityOf(oppositeType, currentWeekKey) ==
  LET joined == SelectSeq(availability,
                  LAMBDA r : /\ \E u \in users : u.id = r.user_id /\ u.user_type = oppositeType
                             /\ notPast(r, currentWeekKey))
  IN  [i \in 1..Len(joined) |->
         [user_id |-> joined[i].user_id,
          email |-> (CHOOSE u \in users : u.id = joined[i].user_id).email,
          day_of_week |-> joined[i].day_of_week,
          start_time |-> joined[i].start_time,
          end_time |-> joined[i].end_time,
          week_key |-> joined[i].week_key]]

\* SELECT ab.user_id, ab.ability FROM abilities ab JOIN users u ON ab.user_id = u.id
\* WHERE u.user_type = 'mentor' AND ab.week_key = ?
mentorAbilitiesOf(currentWeekKey) ==
  SelectSeq(abilities,
    LAMBDA r : /\ \E u \in users : u.id = r.user_id /\ u.user_type = "mentor"
               /\ r.week_key = currentWeekKey)

\* abilitiesByUser[id] || []
abilitiesByUser(mentorAbilities, id) ==
  LET own == SelectSeq(mentorAbilities, LAMBDA r : r.user_id = id)
  IN  [i \in 1..Len(own) |-> own[i].ability]

\* pushes with overlap.duration > 30
pushesStrict(userSlot, otherSlot) ==
  /\ userSlot.day_of_week = otherSlot.day_of_week
  /\ userSlot.week_key = otherSlot.week_key
  /\ LET overlap == findTimeOverlap(userSlot, otherSlot)
     IN  ~overlap.isNull /\ overlap.duration > MinDuration

\* pushes without the comparison of the week keys
pushesAnyWeek(userSlot, otherSlot) ==
  /\ userSlot.day_of_week = otherSlot.day_of_week
  /\ LET overlap == findTimeOverlap(userSlot, otherSlot)
     IN  ~overlap.isNull /\ overlap.duration >= MinDuration

\* pushes without the test of the duration
pushesAnyDuration(userSlot, otherSlot) ==
  /\ userSlot.day_of_week = otherSlot.day_of_week
  /\ userSlot.week_key = otherSlot.week_key
  /\ ~findTimeOverlap(userSlot, otherSlot).isNull

\* the condition under which the overlap loop pushes a candidate
pushes(userSlot, otherSlot) ==
  /\ userSlot.day_of_week = otherSlot.day_of_week
  /\ userSlot.week_key = otherSlot.week_key
  /\ LET overlap == findTimeOverlap(userSlot, otherSlot)
     IN  ~overlap.isNull /\ overlap.duration >= MinDuration

\* candidateOf with the requester's own slot as the source of the partner
candidateOfUserSlot(userSlot, otherSlot, tags) ==
  LET overlap == findTimeOverlap(userSlot, otherSlot)
  IN  [partnerId |-> userSlot.user_id,
       partnerEmail |-> otherSlot.email,
       dayOfWeek |-> userSlot.day_of_week,
       startTime |-> overlap.startTime,
       endTime |-> overlap.endTime,
       duration |-> overlap.duration,
       abilities |-> tags,
       weekKey |-> userSlot.week_key]

\* the candidate pushed for a pair of slots; abilities is <<tags>> when the
\* property is present and <<>> when the candidate has no such property
candidateOf(userSlot, otherSlot, tags) ==
  LET overlap == findTimeOverlap(userSlot, otherSlot)
  IN  [partnerId |-> otherSlot.user_id,
       partnerEmail |-> otherSlot.email,
       dayOfWeek |-> userSlot.day_of_week,
       startTime |-> overlap.startTime,
       endTime |-> overlap.endTime,
       duration |-> overlap.duration,
       abilities |-> tags,
       weekKey |-> userSlot.week_key]

\* userAvailability.forEach(userSlot => otherAvailability.forEach(otherSlot => ...))
overlapLoop(userAvailability, otherAvailability, mentorAbilities, shouldGetAbilities) ==
  LET m == Len(otherAvailability)
      pairs == [k \in 1..(Len(userAvailability) * m) |->
                  <<userAvailability[((k - 1) \div m) + 1], otherAvailability[((k - 1) % m) + 1]>>]
      pushed == SelectSeq(pairs, LAMBDA pr : pushes(pr[1], pr[2]))
  IN  [k \in 1..Len(pushed) |->
         candidateOf(pushed[k][1], pushed[k][2],
           IF shouldGetAbilities
           THEN <<abilitiesByUser(mentorAbilities, pushed[k][2].user_id)>>
           ELSE <<>>)]

\* the raw candidate list of a find-matches request of user
rawMatchesOf(user, currentWeekKey) ==
  overlapLoop(userAvailabilityOf(user.id, currentWeekKey),
              otherAvailabilityOf(oppositeTypeOf(user.user_type), currentWeekKey),
              mentorAbilitiesOf(currentWeekKey),
              user.user_type = "mentee")

\* the query of a find-matches request that fails with a database error:
\* none, the lookup of the user, or one of the later queries
DbErrors == {"none", "users", "query"}

\* what app.post('/api/find-matches') answers when the query err fails; the
\* response is recorded with the day on which the request was served, and an
\* error response has an error message and no match list
findMatchesOutcome(userId, err) ==
  LET found == userById(userId)
      currentWeekKey == getCurrentWeekKey
  IN  IF userId = NoUserId
      THEN [op |-> "find-matches", status |-> 400, userId |-> userId,
            day |-> today, error |-> "User ID required"]
      ELSE IF err = "users" \/ found = {}
      THEN [op |-> "find-matches", status |-> 404, userId |-> userId,
            day |-> today, error |-> "User not found"]
      ELSE IF err = "query"
      THEN [op |-> "find-matches", status |-> 500, userId |-> userId,
            day |-> today, error |-> "Database error"]
      ELSE [op |-> "find-matches", status |-> 200, userId |-> userId,
            day |-> today,
            matches |-> distributeMatches(
                          rawMatchesOf(CHOOSE u \in found : TRUE, currentWeekKey),
                          MatchLimit)]

\* the answer when every query succeeds
findMatchesResponse(userId) == findMatchesOutcome(userId, "none")

\* app.post('/api/find-matches') with a failing query
FindMatchesFailing(userId, err) ==
  /\ err # "none"
  /\ response' = findMatchesOutcome(userId, err)
  /\ UNCHANGED <<users, availability, abilities, matches, nextId, today, arg, out, inflight>>

\* find-matches that takes the requester's slots out of the table once it
\* has answered
FindMatchesConsuming(userId) ==
  /\ response' = findMatchesResponse(userId)
  /\ availability' = deleteRowsOf(availability, userId)
  /\ UNCHANGED <<users, abilities, matches, nextId, today, arg, out, inflight>>

\* find-matches that records its candidates in the matches table
FindMatchesRecording(userId) ==
  /\ response' = findMatchesResponse(userId)
  /\ matches' = IF response'.status = 200 /\ response'.matches # <<>>
                THEN Append(matches, [mentor_id |-> userId,
                                      mentee_id |-> response'.matches[1].partnerId,
                                      scheduled_date |-> today,
                                      scheduled_time |-> response'.matches[1].startTime,
                                      status |-> "pending"])
                ELSE matches
  /\ UNCHANGED <<users, availability, abilities, nextId, today, arg, out, inflight>>

\* app.post('/api/find-matches') when every query succeeds
FindMatches(userId) ==
  /\ response' = findMatchesResponse(userId)
  /\ UNCHANGED <<users, availability, abilities, matches, nextId, today, arg, out, inflight>>

\* send-invitation that records the match before it sends the emails
SendInvitationRecordingFirst(mentorEmail, menteeEmail, scheduledTime, scheduledDate, calendarOk, mailOk) ==
  LET mentorUser == userByEmail(mentorEmail)
      menteeUser == userByEmail(menteeEmail)
      recorded == mentorUser # {} /\ menteeUser # {}
      missing == mentorEmail = "" \/ menteeEmail = "" \/ scheduledTime = <<>> \/ scheduledDate = 0
  IN  /\ Len(matches) < MaxInvites
      /\ matches' = IF ~missing /\ recorded
                    THEN Append(matches,
                                [mentor_id |-> (CHOOSE u \in mentorUser : TRUE).id,
                                 mentee_id |-> (CHOOSE u \in menteeUser : TRUE).id,
                                 scheduled_date |-> scheduledDate,
                                 scheduled_time |-> scheduledTime,
                                 status |-> "sent"])
                    ELSE matches
      /\ response' = IF missing
                     THEN [op |-> "send-invitation", status |-> 400,
                           error |-> "Missing required fields"]
                     ELSE IF ~mailOk
                     THEN [op |-> "send-invitation", status |-> 500,
                           error |-> "Failed to send invitation emails"]
                     ELSE [op |-> "send-invitation", status |-> 200,
                           matchId |-> IF recorded THEN Len(matches) + 1 ELSE 0,
                           calendarEvent |-> calendarOk]
      /\ UNCHANGED <<users, availability, abilities, nextId, today, arg, out, inflight>>

\* app.post('/api/send-invitation'); "" and <<>> and 0 stand for a missing
\* field, mailOk says whether both emails were sent, calendarOk whether the
\* calendar event was created, matchId 0 stands for null
SendInvitation(mentorEmail, menteeEmail, scheduledTime, scheduledDate, calendarOk, mailOk) ==
  LET mentorUser == userByEmail(mentorEmail)
      menteeUser == userByEmail(menteeEmail)
      recorded == mentorUser # {} /\ menteeUser # {}
  IN  /\ Len(matches) < MaxInvites
      /\ IF mentorEmail = "" \/ menteeEmail = "" \/ scheduledTime = <<>> \/ scheduledDate = 0
         THEN /\ response' = [op |-> "send-invitation", status |-> 400,
                              error |-> "Missing required fields"]
              /\ UNCHANGED matches
         ELSE IF ~mailOk
         THEN /\ response' = [op |-> "send-invitation", status |-> 500,
                              error |-> "Failed to send invitation emails"]
              /\ UNCHANGED matches
         ELSE /\ matches' =
                   IF recorded
                   THEN Append(matches,
                               [mentor_id |-> (CHOOSE u \in mentorUser : TRUE).id,
                                mentee_id |-> (CHOOSE u \in menteeUser : TRUE).id,
                                scheduled_date |-> scheduledDate,
                                scheduled_time |-> scheduledTime,
                                status |-> "sent"])
                   ELSE matches
              /\ response' = [op |-> "send-invitation", status |-> 200,
                              matchId |-> IF recorded THEN Len(matches) + 1 ELSE 0,
                              calendarEvent |-> calendarOk]
      /\ UNCHANGED <<users, availability, abilities, nextId, today, arg, out, inflight>>

\* getWeekKey of the client: the date set to getDate() - day + (day === 0 ? -6 : 1)
getWeekKey(date) ==
  LET day == getDay(date)
  IN  date - day + (IF day = 0 THEN -6 ELSE 1)

(***************************************************************************)
(* Inputs of the requests                                                  *)
(***************************************************************************)
Emails == {"a@x", "b@x"}

UserTypes == {"mentor", "mentee"}

T0900 == <<"0", "9", ":", "0", "0">>
T0930 == <<"0", "9", ":", "3", "0">>
T0945 == <<"0", "9", ":", "4", "5">>
T1000 == <<"1", "0", ":", "0", "0">>
T1030 == <<"1", "0", ":", "3", "0">>
T1100 == <<"1", "1", ":", "0", "0">>

TimeSlot(d, s, e, w) == [dayOfWeek |-> d, startTime |-> s, endTime |-> e, weekKey |-> w]

\* the slots a register request chooses from: two Monday windows of the week
\* whose Monday is day 1, and one without weekKey
SlotInputs ==
  << TimeSlot(1, T0900, T1000, 1), TimeSlot(1, T0930, T1030, 1), TimeSlot(1, T0900, T1000, 0) >>

\* the abilities sent with a register request: a mentor selects at least
\* one, a mentee sends none
AbilityLists(userType) == IF userType = "mentor" THEN {<<"Accessibility">>} ELSE {<<>>}

\* a selection takes every choice at most once, in the order of the choices
Increasing(picks) == \A i \in 2..Len(picks) : picks[i - 1] < picks[i]

Selected(picks) == [i \in 1..Len(picks) |-> SlotInputs[picks[i]]]

\* the userId of a find-matches request: missing, or an id that was or will
\* be handed out
RequestIds == {NoUserId} \cup {uuid(e, k) : e \in Emails, k \in 1..MaxIds}

Null == [op |-> "none", status |-> 0, userId |-> NoUserId]

Init ==
  /\ users = {}
  /\ availability = <<>>
  /\ abilities = <<>>
  /\ matches = <<>>
  /\ nextId = [e \in Emails |-> 1]
  /\ today = 6
  /\ response = Null
  /\ arg = <<>>
  /\ out = <<>>
  /\ inflight = <<>>

Next ==
  \/ \E email \in Emails, userType \in UserTypes, n \in 0..MaxSlots :
       \E picks \in [1..n -> 1..Len(SlotInputs)], tags \in AbilityLists(userType) :
         Increasing(picks) /\ Register(email, userType, Selected(picks), tags)
  \/ \E userType \in UserTypes : Register("", userType, <<>>, <<>>)
  \/ CleanOldData
  \/ Tick
  \/ \E userId \in RequestIds : FindMatches(userId)

Spec == Init /\ [][Next]_vars

(***************************************************************************)
(* findTimeOverlap applied to two rows of one day and week                 *)
(***************************************************************************)
\* "9:30", a time that is not zero-padded
T930 == <<"9", ":", "3", "0">>

OverlapTimes == {T0900, T930, T0930, T0945, T1000, T1030, T1100}

OverlapSlots ==
  {[day_of_week |-> 1, week_key |-> 1, start_time |-> s, end_time |-> e] :
     s \in OverlapTimes, e \in OverlapTimes}

InitOverlap ==
  /\ users = {}
  /\ availability = <<>>
  /\ abilities = <<>>
  /\ matches = <<>>
  /\ nextId = [e \in Emails |-> 1]
  /\ today = 6
  /\ response = Null
  /\ arg \in OverlapSlots \X OverlapSlots
  /\ out = <<>>
  /\ inflight = <<>>

ApplyOverlap ==
  /\ out = <<>>
  /\ out' = <<findTimeOverlap(arg[1], arg[2])>>
  /\ UNCHANGED <<users, availability, abilities, matches, nextId, today, response, arg, inflight>>

SpecOverlap == InitOverlap /\ [][ApplyOverlap]_vars

(***************************************************************************)
(* distributeMatches applied to a raw candidate list                       *)
(***************************************************************************)
T1130 == <<"1", "1", ":", "3", "0">>

\* the days and the half-hour windows of the candidates
DistDays == {1, 2}

DistWindows == << <<T0900, T0930>>, <<T0930, T1000>>, <<T1000, T1030>>, <<T1030, T1100>> >>

\* the i-th candidate of a list, on day d in window w: every candidate has a
\* partner of its own
Candidate(i, d, w) ==
  [partnerId |-> uuid("p@x", i),
   partnerEmail |-> "p@x",
   dayOfWeek |-> d,
   startTime |-> DistWindows[w][1],
   endTime |-> DistWindows[w][2],
   duration |-> 30,
   abilities |-> <<>>,
   weekKey |-> 1]

CandidateList(keys) == [i \in 1..Len(keys) |-> Candidate(i, keys[i][1], keys[i][2])]

\* the (day, window) a list may go on with: the windows of a day are numbered
\* in the order in which the list first uses them
NextKeys(keys) ==
  {k \in DistDays \X (1..Len(DistWindows)) :
     k[2] <= Cardinality({keys[i][2] : i \in {j \in 1..Len(keys) : keys[j][1] = k[1]}}) + 1}

\* the lists of n (day, window) pairs
RECURSIVE WindowLists(_)
WindowLists(n) ==
  IF n = 0 THEN {<<>>}
  ELSE UNION {{Append(keys, k) : k \in NextKeys(keys)} : keys \in WindowLists(n - 1)}

\* the lists of n different days, each with the first window
RECURSIVE DayLists(_)
DayLists(n) ==
  IF n = 0 THEN {<<>>}
  ELSE UNION {{Append(keys, <<d, 1>>) :
                 d \in (0..6) \ {keys[i][1] : i \in 1..Len(keys)}} : keys \in DayLists(n - 1)}

InitDist ==
  /\ users = {}
  /\ availability = <<>>
  /\ abilities = <<>>
  /\ matches = <<>>
  /\ nextId = [e \in Emails |-> 1]
  /\ today = 6
  /\ response = Null
  /\ \E n \in 0..MaxMatches : \E keys \in WindowLists(n) \cup DayLists(n + 1) :
       arg = CandidateList(keys)
  /\ out = <<>>
  /\ inflight = <<>>

ApplyDistribute ==
  /\ out = <<>>
  /\ out' = <<distributeMatches(arg, MatchLimit)>>
  /\ UNCHANGED <<users, availability, abilities, matches, nextId, today, response, arg, inflight>>

SpecDist == InitDist /\ [][ApplyDistribute]_vars

(***************************************************************************)
(* find-matches applied to a stored snapshot                               *)
(***************************************************************************)
\* three stored users
MatchUsers == <<"a@x", "b@x", "c@x">>

\* the user types of the stored users; the third one is a mentor
MatchTypes == {t \in [1..3 -> UserTypes] : t[3] = "mentor"}

\* stored slots: Monday and Tuesday windows of the current week (Monday is
\* day 8), one of next week and one of last week
StoredSlots ==
  << TimeSlot(1, T0900, T1000, 8), TimeSlot(1, T0930, T1030, 8),
     TimeSlot(1, T1000, T1100, 8), TimeSlot(1, T0945, T1030, 8),
     TimeSlot(2, T0900, T1000, 8), TimeSlot(1, T0900, T1000, 15),
     TimeSlot(1, T0900, T1000, 1) >>

\* an availability table: cell c is a slot of a user; the rows of a user are
\* together and a user has no slot twice
StoredTable(cells) ==
  [i \in 1..Len(cells) |->
     availabilityRows(uuid(MatchUsers[((cells[i] - 1) \div Len(StoredSlots)) + 1], 1),
                      <<StoredSlots[((cells[i] - 1) % Len(StoredSlots)) + 1]>>, 7)[1]]

InitMatch ==
  /\ \E type \in MatchTypes :
       users = {[id |-> uuid(MatchUsers[i], 1), email |-> MatchUsers[i], user_type |-> type[i]] :
                  i \in 1..3}
  /\ \E n \in 0..MaxStored : \E cells \in [1..n -> 1..(3 * Len(StoredSlots))] :
       Increasing(cells) /\ availability = StoredTable(cells)
  /\ abilities = <<>>
  /\ matches = <<>>
  /\ nextId = [e \in Emails |-> 2]
  /\ today = 8
  /\ response = Null
  /\ arg = <<>>
  /\ out = <<>>
  /\ inflight = <<>>

NextMatch == \E i \in 1..3 : FindMatches(uuid(MatchUsers[i], 1))

SpecMatch == InitMatch /\ [][NextMatch]_vars

(***************************************************************************)
(* register and check-email                                                *)
(***************************************************************************)
\* the slots of a register request: Monday of the week whose Monday is day
\* 8, Monday of the week after, a Tuesday slot without weekKey, a slot that
\* ends before it starts, and a slot of the week before
RegSlots ==
  << TimeSlot(1, T0900, T1000, 8), TimeSlot(1, T0930, T1030, 15), TimeSlot(2, T0900, T1000, 0),
     TimeSlot(1, T1000, T0900, 8), TimeSlot(1, T0900, T1000, 1) >>

SubmittedOf(picks) == [i \in 1..Len(picks) |-> RegSlots[picks[i]]]

RegPicks ==
  UNION {{picks \in [1..n -> 1..Len(RegSlots)] : Increasing(picks)} : n \in 0..MaxSlots}

InitRegister ==
  /\ users = {}
  /\ availability = <<>>
  /\ abilities = <<>>
  /\ matches = <<>>
  /\ nextId = [e \in Emails |-> 1]
  /\ today = 8
  /\ response = Null
  /\ arg = <<>>
  /\ out = <<>>
  /\ inflight = <<>>

NextRegister ==
  \/ \E email \in Emails, userType \in UserTypes, picks \in RegPicks :
       \E tags \in AbilityLists(userType) : Register(email, userType, SubmittedOf(picks), tags)
  \/ \E email \in Emails \cup {""} : CheckEmail(email)

SpecRegister == InitRegister /\ [][NextRegister]_vars

(***************************************************************************)
(* find-matches and send-invitation                                        *)
(***************************************************************************)
\* the emails of the invitations: two stored users and one that is not stored
InviteEmails == {"a@x", "b@x", "d@x"}

\* a@x and b@x are stored, each with the Monday 09:00-10:00 slot of the
\* current week
InitInvite ==
  /\ \E type \in [1..2 -> UserTypes] :
       users = {[id |-> uuid(MatchUsers[i], 1), email |-> MatchUsers[i], user_type |-> type[i]] :
                  i \in 1..2}
  /\ availability = StoredTable(<<1, Len(StoredSlots) + 1>>)
  /\ abilities = <<>>
  /\ matches = <<>>
  /\ nextId = [e \in Emails |-> 2]
  /\ today = 8
  /\ response = Null
  /\ arg = <<>>
  /\ out = <<>>
  /\ inflight = <<>>

NextInvite ==
  \/ \E userId \in {NoUserId} \cup {uuid(e, 1) : e \in InviteEmails} : FindMatches(userId)
  \/ \E mentorEmail \in InviteEmails \cup {""}, menteeEmail \in InviteEmails \cup {""},
          scheduledTime \in {T0900, <<>>}, scheduledDate \in {8, 0},
          calendarOk \in BOOLEAN, mailOk \in BOOLEAN :
       SendInvitation(mentorEmail, menteeEmail, scheduledTime, scheduledDate, calendarOk, mailOk)

SpecInvite == InitInvite /\ [][NextInvite]_vars

(***************************************************************************)
(* the week keys of the server and of the client                           *)
(***************************************************************************)
InitWeekKey ==
  /\ users = {}
  /\ availability = <<>>
  /\ abilities = <<>>
  /\ matches = <<>>
  /\ nextId = [e \in Emails |-> 1]
  /\ today \in 7..MaxDate
  /\ response = Null
  /\ arg = <<>>
  /\ out = <<>>
  /\ inflight = <<>>

\* the server's current week key and the client's week key of today
ApplyWeekKey ==
  /\ out = <<>>
  /\ out' = <<getCurrentWeekKey, getWeekKey(today)>>
  /\ UNCHANGED <<users, availability, abilities, matches, nextId, today, response, arg, inflight>>

SpecWeekKey == InitWeekKey /\ [][ApplyWeekKey]_vars

(***************************************************************************)
(* find-matches and cleanOldData while the week changes                    *)
(***************************************************************************)
\* the slots of the registrations: a Monday window of the week whose Monday
\* is day 1 and one of the week after
WeekSlots == << TimeSlot(1, T0900, T1000, 1), TimeSlot(1, T0930, T1030, 8) >>

ChosenOf(picks) == [i \in 1..Len(picks) |-> WeekSlots[picks[i]]]

\* the selections of one user
WeekPicks ==
  UNION {{picks \in [1..n -> 1..Len(WeekSlots)] : Increasing(picks)} : n \in 0..MaxSlots}

\* the three stored users have registered on day 6, one after the other
InitWeek ==
  /\ today = 6
  /\ \E type \in MatchTypes, picks \in [1..3 -> WeekPicks] :
       /\ users = {[id |-> uuid(MatchUsers[i], 1), email |-> MatchUsers[i],
                    user_type |-> type[i]] : i \in 1..3}
       /\ availability =
            availabilityRows(uuid(MatchUsers[1], 1), ChosenOf(picks[1]), getCurrentWeekKey)
              \o availabilityRows(uuid(MatchUsers[2], 1), ChosenOf(picks[2]), getCurrentWeekKey)
              \o availabilityRows(uuid(MatchUsers[3], 1), ChosenOf(picks[3]), getCurrentWeekKey)
       /\ \E tags \in [1..3 -> AbilityLists("mentor")] :
            abilities =
              abilityRows(uuid(MatchUsers[1], 1), type[1], tags[1], getCurrentWeekKey)
                \o abilityRows(uuid(MatchUsers[2], 1), type[2], tags[2], getCurrentWeekKey)
                \o abilityRows(uuid(MatchUsers[3], 1), type[3], tags[3], getCurrentWeekKey)
  /\ matches = <<>>
  /\ nextId = [e \in Emails |-> 2]
  /\ response = Null
  /\ arg = <<>>
  /\ out = <<>>
  /\ inflight = <<>>

NextWeek ==
  \/ Tick
  \/ CleanOldData
  \/ \E i \in 1..3 : FindMatches(uuid(MatchUsers[i], 1))

SpecWeek == InitWeek /\ [][NextWeek]_vars

(***************************************************************************)
(* find-matches on a database whose queries may fail                       *)
(***************************************************************************)
\* the cells of the stored tables: for each stored user the Monday
\* 09:00-10:00 slot of the current week and the one of last week
FaultCells ==
  {c \in 1..(3 * Len(StoredSlots)) : ((c - 1) % Len(StoredSlots)) + 1 \in {1, Len(StoredSlots)}}

\* the ids of the requests: the stored users and an id that was never stored
FaultIds == {uuid(MatchUsers[i], 1) : i \in 1..3} \cup {uuid("d@x", 1)}

InitFault ==
  /\ \E type \in MatchTypes :
       users = {[id |-> uuid(MatchUsers[i], 1), email |-> MatchUsers[i], user_type |-> type[i]] :
                  i \in 1..3}
  /\ \E n \in 0..MaxStored : \E cells \in [1..n -> FaultCells] :
       Increasing(cells) /\ availability = StoredTable(cells)
  /\ abilities = <<>>
  /\ matches = <<>>
  /\ nextId = [e \in Emails |-> 2]
  /\ today = 8
  /\ response = Null
  /\ arg = <<>>
  /\ out = <<>>
  /\ inflight = <<>>

NextFault ==
  \/ \E userId \in FaultIds : FindMatches(userId)
  \/ \E userId \in FaultIds, err \in DbErrors : FindMatchesFailing(userId, err)
  \/ CleanOldData

SpecFault == InitFault /\ [][NextFault]_vars

(***************************************************************************)
(* register with slots of past weeks                                       *)
(***************************************************************************)
\* the slot lists of the register requests on day 8, when the current week
\* key is 7: a slot of the current week key, a slot of the week whose Monday
\* is day 8 followed by a slot of the week before, a slot of the week before,
\* a slot without weekKey followed by a slot of the week after, and a slot
\* of the week whose Monday is day 8
PastSlotLists ==
  { <<TimeSlot(1, T0900, T1000, 7)>>,
    <<TimeSlot(1, T0930, T1030, 8)>>,
    <<TimeSlot(1, T0900, T1000, 8), TimeSlot(2, T0900, T1000, 1)>>,
    <<TimeSlot(3, T0930, T1030, 1)>>,
    <<TimeSlot(2, T0900, T1000, 0), TimeSlot(1, T0930, T1030, 15)>> }

InitPast ==
  /\ users = {}
  /\ availability = <<>>
  /\ abilities = <<>>
  /\ matches = <<>>
  /\ nextId = [e \in Emails |-> 1]
  /\ today = 8
  /\ response = Null
  /\ arg = <<>>
  /\ out = <<>>
  /\ inflight = <<>>

NextPast ==
  \E email \in Emails, userType \in UserTypes, slots \in PastSlotLists :
    \E tags \in AbilityLists(userType) : Register(email, userType, slots, tags)

SpecPast == InitPast /\ [][NextPast]_vars

(***************************************************************************)
(* find-matches on stored slots that end before they start                 *)
(***************************************************************************)
\* stored Monday slots of the week whose Monday is day 8: two windows that
\* overlap, two that end before they start, an empty one, and one whose
\* start is not zero-padded
InvertedSlots ==
  << TimeSlot(1, T0900, T1000, 8), TimeSlot(1, T0930, T1030, 8),
     TimeSlot(1, T1000, T0900, 8), TimeSlot(1, T1030, T0900, 8),
     TimeSlot(1, T0930, T0930, 8), TimeSlot(1, T930, T1030, 8) >>

\* an availability table: cell c is a slot of a@x or of b@x
InvertedTable(cells) ==
  [i \in 1..Len(cells) |->
     availabilityRows(uuid(MatchUsers[((cells[i] - 1) \div Len(InvertedSlots)) + 1], 1),
                      <<InvertedSlots[((cells[i] - 1) % Len(InvertedSlots)) + 1]>>, 7)[1]]

\* a@x is a stored mentor and b@x a stored mentee
InitInverted ==
  /\ users = {[id |-> uuid("a@x", 1), email |-> "a@x", user_type |-> "mentor"],
              [id |-> uuid("b@x", 1), email |-> "b@x", user_type |-> "mentee"]}
  /\ \E n \in 0..MaxStored : \E cells \in [1..n -> 1..(2 * Len(InvertedSlots))] :
       Increasing(cells) /\ availability = InvertedTable(cells)
  /\ abilities = <<>>
  /\ matches = <<>>
  /\ nextId = [e \in Emails |-> 2]
  /\ today = 8
  /\ response = Null
  /\ arg = <<>>
  /\ out = <<>>
  /\ inflight = <<>>

NextInverted == \E email \in Emails : FindMatches(uuid(email, 1))

SpecInverted == InitInverted /\ [][NextInverted]_vars

(***************************************************************************)
(* the date of the calendar event of an invitation                         *)
(***************************************************************************)
\* the weekday names of toLocaleDateString('en-US', {weekday: 'long'}) and
\* the keys of dayNameToNumber
DayNames ==
  <<"Sunday", "Monday", "Tuesday", "Wednesday", "Thursday", "Friday", "Saturday">>

\* getDayNameFromDate of the client
getDayNameFromDate(date) == DayNames[getDay(date) + 1]

\* dayNameToNumber[dayOfWeek]
dayNameToNumber(name) == (CHOOSE i \in 1..7 : DayNames[i] = name) - 1

\* getDateForWeekDay of the client: getWeekDates(weekKey)[dayOfWeek], the
\* week dates start on the day before the Monday weekKey
getDateForWeekDay(weekKey, dayOfWeek) == (weekKey - 1) + dayOfWeek

\* getNextWeekdayDate(dayOfWeek) of the server
getNextWeekdayDate(dayOfWeek) ==
  LET targetDay == dayNameToNumber(dayOfWeek)
      currentDay == getDay(today)
      daysToAdd == IF targetDay - currentDay <= 0
                   THEN targetDay - currentDay + 7
                   ELSE targetDay - currentDay
  IN  today + daysToAdd

\* the invited match: a day of the client's current week or of the week
\* after, today or later
InitCalendar ==
  /\ users = {}
  /\ availability = <<>>
  /\ abilities = <<>>
  /\ matches = <<>>
  /\ nextId = [e \in Emails |-> 1]
  /\ today \in 7..MaxDate
  /\ response = Null
  /\ \E weekKey \in {getWeekKey(today), getWeekKey(today) + 7}, dayOfWeek \in 0..6 :
       /\ getDateForWeekDay(weekKey, dayOfWeek) >= today
       /\ arg = [weekKey |-> weekKey, dayOfWeek |-> dayOfWeek]
  /\ out = <<>>
  /\ inflight = <<>>

\* sendInvitation of the client sends the day name of the match's date;
\* createCalendarEvent and generateGoogleCalendarLink date the event with
\* getNextWeekdayDate of that name
ApplyCalendar ==
  /\ out = <<>>
  /\ out' = <<getNextWeekdayDate(
                getDayNameFromDate(getDateForWeekDay(arg.weekKey, arg.dayOfWeek)))>>
  /\ UNCHANGED <<users, availability, abilities, matches, nextId, today, response, arg, inflight>>

SpecCalendar == InitCalendar /\ [][ApplyCalendar]_vars

(***************************************************************************)
(* the weeks offered by the client                                         *)
(***************************************************************************)
\* the number of weeks listed by generateAvailableWeeks()
NumWeeks == 9

\* generateAvailableWeeks(): the weekKey of entry i
generateAvailableWeeks ==
  [k \in 1..NumWeeks |-> getWeekKey(today + ((k - 1) * 7) - getDay(today) + 1)]

\* getWeekDates(weekKey): the day before the Monday weekKey and the six
\* days after it
getWeekDates(weekKey) == [i \in 1..7 |-> (weekKey - 1) + (i - 1)]

\* isDateInPast(date)
isDateInPast(date) == date < today

\* CalendarSelectionPage: selectedWeek starts as getCurrentWeekKey(), the
\* WeekSelector looks it up in the available weeks (0 when it finds none),
\* and the calendar shows the dates of the selected week
ApplyWeeks ==
  /\ out = <<>>
  /\ LET selectedWeek == getWeekKey(today)
         availableWeeks == generateAvailableWeeks
     IN  out' = [selectedWeek |-> selectedWeek,
                 availableWeeks |-> availableWeeks,
                 found |-> IF \E k \in 1..NumWeeks : availableWeeks[k] = selectedWeek
                           THEN CHOOSE k \in 1..NumWeeks : availableWeeks[k] = selectedWeek
                           ELSE 0,
                 weekDates |-> getWeekDates(selectedWeek)]
  /\ UNCHANGED <<users, availability, abilities, matches, nextId, today, response, arg, inflight>>

SpecWeeks == InitWeekKey /\ [][ApplyWeeks]_vars

(***************************************************************************)
(* The request handlers, one database statement at a time                  *)
(***************************************************************************)
\* a request that has not arrived
Idle == [pc |-> "idle"]

\* the find-matches request has arrived and has not been answered
findRunning == inflight.find.pc \in {"user", "own", "other", "abilities"}

\* the answers that the stored data would give to the find-matches request in
\* flight, one for every instant since it arrived: the answer of the present
\* instant is added to those of the earlier ones
observed(next) ==
  IF findRunning
  THEN [next EXCEPT !.find.seen = @ \cup {findMatchesResponse(inflight.find.userId)}]
  ELSE next

\* app.post('/api/find-matches'): the request arrives with a userId
FindArrives(userId) ==
  /\ inflight.find.pc = "idle"
  /\ inflight' = [inflight EXCEPT !.find = [pc |-> "user", userId |-> userId, seen |-> {}]]
  /\ UNCHANGED <<users, availability, abilities, matches, nextId, today, response, arg, out>>

\* db.get(`SELECT * FROM users WHERE id = ?`) and its callback
FindUserQuery ==
  LET f == inflight.find
      found == userById(f.userId)
      answer == [op |-> "find-matches", status |-> 404, userId |-> f.userId,
                 day |-> today, error |-> "User not found"]
  IN  /\ f.pc = "user"
      /\ IF found = {}
         THEN /\ response' = answer
              /\ inflight' = observed([inflight EXCEPT
                                !.find = [pc |-> "done", userId |-> f.userId,
                                          seen |-> f.seen, answer |-> answer]])
         ELSE /\ response' = response
              /\ inflight' = observed([inflight EXCEPT
                                !.find = [pc |-> "own", userId |-> f.userId, seen |-> f.seen,
                                          user |-> CHOOSE u \in found : TRUE,
                                          currentWeekKey |-> getCurrentWeekKey]])
      /\ UNCHANGED <<users, availability, abilities, matches, nextId, today, arg, out>>

\* db.all(`SELECT * FROM availability WHERE user_id = ? AND week_key >= ?`)
FindOwnQuery ==
  LET f == inflight.find
  IN  /\ f.pc = "own"
      /\ inflight' = observed([inflight EXCEPT
                        !.find = [pc |-> "other", userId |-> f.userId, seen |-> f.seen,
                                  user |-> f.user, currentWeekKey |-> f.currentWeekKey,
                                  userAvailability |->
                                    userAvailabilityOf(f.userId, f.currentWeekKey)]])
      /\ UNCHANGED <<users, availability, abilities, matches, nextId, today, response, arg, out>>

\* the answer of find-matches from the rows its queries have returned
answerOf(f, otherAvailability, mentorAbilities) ==
  [op |-> "find-matches", status |-> 200, userId |-> f.userId, day |-> today,
   matches |-> distributeMatches(
                 overlapLoop(f.userAvailability, otherAvailability, mentorAbilities,
                             f.user.user_type = "mentee"),
                 MatchLimit)]

\* the query of the availability of the users of the opposite type; a mentor
\* is answered in its callback
FindOtherQuery ==
  LET f == inflight.find
      otherAvailability ==
        otherAvailabilityOf(oppositeTypeOf(f.user.user_type), f.currentWeekKey)
      answer == answerOf(f, otherAvailability, <<>>)
  IN  /\ f.pc = "other"
      /\ IF f.user.user_type = "mentee"
         THEN /\ response' = response
              /\ inflight' = observed([inflight EXCEPT
                                !.find = [pc |-> "abilities", userId |-> f.userId,
                                          seen |-> f.seen, user |-> f.user,
                                          currentWeekKey |-> f.currentWeekKey,
                                          userAvailability |-> f.userAvailability,
                                          otherAvailability |-> otherAvailability]])
         ELSE /\ response' = answer
              /\ inflight' = observed([inflight EXCEPT
                                !.find = [pc |-> "done", userId |-> f.userId,
                                          seen |-> f.seen, answer |-> answer]])
      /\ UNCHANGED <<users, availability, abilities, matches, nextId, today, arg, out>>

\* the query of the abilities of the mentors; the mentee is answered in its
\* callback
FindAbilitiesQuery ==
  LET f == inflight.find
      answer == answerOf(f, f.otherAvailability, mentorAbilitiesOf(f.currentWeekKey))
  IN  /\ f.pc = "abilities"
      /\ response' = answer
      /\ inflight' = observed([inflight EXCEPT
                        !.find = [pc |-> "done", userId |-> f.userId,
                                  seen |-> f.seen, answer |-> answer]])
      /\ UNCHANGED <<users, availability, abilities, matches, nextId, today, arg, out>>

\* the INSERT statements that register hands to the database after its two
\* DELETE statements: the availability rows, then the ability rows
pendingInserts(userId, userType, slots, tags, currentWeekKey) ==
  LET av == availabilityRows(userId, slots, currentWeekKey)
      ab == abilityRows(userId, userType, tags, currentWeekKey)
  IN  [i \in 1..(Len(av) + Len(ab)) |->
         IF i <= Len(av) THEN [table |-> "availability", row |-> av[i]]
         ELSE [table |-> "abilities", row |-> ab[i - Len(av)]]]

\* app.post('/api/register'): the request arrives, is validated, and takes
\* its uuidv4(); of the two register requests, reg1 names the one that
\* arrives first
RegisterArrives(p, email, userType, slots, tags) ==
  LET currentWeekKey == getCurrentWeekKey
      answer == [op |-> "register", status |-> 400, userId |-> NoUserId]
  IN  /\ inflight[p].pc = "idle"
      /\ p = "reg2" => inflight.reg1.pc # "idle"
      /\ IF Len(pastSlots(slots, currentWeekKey)) > 0
         THEN /\ response' = answer
              /\ nextId' = nextId
              /\ inflight' = observed([inflight EXCEPT
                                ![p] = [pc |-> "done", email |-> email, userType |-> userType,
                                         slots |-> slots, tags |-> tags, answer |-> answer]])
         ELSE /\ response' = response
              /\ nextId' = [nextId EXCEPT ![email] = @ + 1]
              /\ inflight' = observed([inflight EXCEPT
                                ![p] = [pc |-> "lookup", email |-> email, userType |-> userType,
                                         slots |-> slots, tags |-> tags,
                                         currentWeekKey |-> currentWeekKey,
                                         userId |-> uuid(email, nextId[email])]])
      /\ UNCHANGED <<users, availability, abilities, matches, today, arg, out>>

\* db.get(`SELECT id FROM users WHERE email = ?`) and its callback
RegisterLookup(p) ==
  LET r == inflight[p]
      existingUser == userByEmail(r.email)
  IN  /\ r.pc = "lookup"
      /\ inflight' = observed([inflight EXCEPT
                        ![p] = [pc |-> "user", email |-> r.email, userType |-> r.userType,
                                 slots |-> r.slots, tags |-> r.tags,
                                 currentWeekKey |-> r.currentWeekKey,
                                 existingUser |-> existingUser # {},
                                 userIdToUse |-> IF existingUser # {}
                                                 THEN (CHOOSE u \in existingUser : TRUE).id
                                                 ELSE r.userId]])
      /\ UNCHANGED <<users, availability, abilities, matches, nextId, today, response, arg, out>>

\* db.run(userQuery): UPDATE users SET user_type WHERE id = ?, or INSERT INTO
\* users, which fails when the email or the id is stored already
RegisterUserQuery(p) ==
  LET r == inflight[p]
      failed == ~r.existingUser /\ \E u \in users : u.email = r.email \/ u.id = r.userIdToUse
      answer == [op |-> "register", status |-> 500, userId |-> NoUserId]
  IN  /\ r.pc = "user"
      /\ users' = IF r.existingUser
                  THEN {IF u.id = r.userIdToUse THEN [u EXCEPT !.user_type = r.userType] ELSE u :
                          u \in users}
                  ELSE IF failed THEN users
                  ELSE users \cup {[id |-> r.userIdToUse, email |-> r.email,
                                    user_type |-> r.userType]}
      /\ response' = IF failed THEN answer ELSE response
      /\ inflight' = observed([inflight EXCEPT
                        ![p] = IF failed
                                THEN [pc |-> "done", email |-> r.email, userType |-> r.userType,
                                      slots |-> r.slots, tags |-> r.tags, answer |-> answer]
                                ELSE [r EXCEPT !.pc = "availability"]])
      /\ UNCHANGED <<availability, abilities, matches, nextId, today, arg, out>>

\* db.run(`DELETE FROM availability WHERE user_id = ?`)
RegisterDeleteAvailability(p) ==
  LET r == inflight[p]
  IN  /\ r.pc = "availability"
      /\ availability' = deleteRowsOf(availability, r.userIdToUse)
      /\ inflight' = observed([inflight EXCEPT ![p] = [r EXCEPT !.pc = "abilities"]])
      /\ UNCHANGED <<users, abilities, matches, nextId, today, response, arg, out>>

\* db.run(`DELETE FROM abilities WHERE user_id = ?`) and its callback: the
\* INSERT statements are handed to the database and the request is answered
RegisterDeleteAbilities(p) ==
  LET r == inflight[p]
      answer == [op |-> "register", status |-> 200, userId |-> r.userIdToUse]
      pending == pendingInserts(r.userIdToUse, r.userType, r.slots, r.tags, r.currentWeekKey)
  IN  /\ r.pc = "abilities"
      /\ abilities' = deleteRowsOf(abilities, r.userIdToUse)
      /\ response' = answer
      /\ inflight' = observed([inflight EXCEPT
                        ![p] = [pc |-> IF pending = <<>> THEN "done" ELSE "inserting",
                                 email |-> r.email, userType |-> r.userType,
                                 slots |-> r.slots, tags |-> r.tags,
                                 userIdToUse |-> r.userIdToUse,
                                 pending |-> pending, answer |-> answer]])
      /\ UNCHANGED <<users, availability, matches, nextId, today, arg, out>>

\* availabilityStmt.run(...) / abilitiesStmt.run(...): the next INSERT
\* statement of an answered register request is executed
RegisterInsert(p) ==
  LET r == inflight[p]
      stmt == Head(r.pending)
  IN  /\ r.pc = "inserting"
      /\ availability' = IF stmt.table = "availability"
                         THEN Append(availability, stmt.row) ELSE availability
      /\ abilities' = IF stmt.table = "abilities"
                      THEN Append(abilities, stmt.row) ELSE abilities
      /\ inflight' = observed([inflight EXCEPT
                        ![p] = [r EXCEPT !.pending = Tail(r.pending),
                                          !.pc = IF Tail(r.pending) = <<>>
                                                 THEN "done" ELSE "inserting"]])
      /\ UNCHANGED <<users, matches, nextId, today, response, arg, out>>

\* cleanOldData(): the week key is taken and the three DELETE statements are
\* handed to the database
CleanArrives ==
  /\ inflight.clean.pc = "idle"
  /\ inflight' = observed([inflight EXCEPT
                    !.clean = [pc |-> "running", currentWeekKey |-> getCurrentWeekKey,
                               pending |-> <<"availability", "abilities", "users">>]])
  /\ UNCHANGED <<users, availability, abilities, matches, nextId, today, response, arg, out>>

\* the next DELETE statement of cleanOldData is executed
CleanStatement ==
  LET k == inflight.clean
      stmt == Head(k.pending)
      keptUserIds == {availability[i].user_id :
                        i \in {j \in 1..Len(availability) :
                                 availability[j].week_key >= k.currentWeekKey}}
  IN  /\ k.pc = "running"
      /\ availability' = IF stmt = "availability"
                         THEN SelectSeq(availability,
                                        LAMBDA r : ~(r.week_key < k.currentWeekKey))
                         ELSE availability
      /\ abilities' = IF stmt = "abilities"
                      THEN SelectSeq(abilities, LAMBDA r : ~(r.week_key < k.currentWeekKey))
                      ELSE abilities
      /\ users' = IF stmt = "users" THEN {u \in users : u.id \in keptUserIds} ELSE users
      /\ inflight' = observed([inflight EXCEPT
                        !.clean = [k EXCEPT !.pending = Tail(k.pending),
                                            !.pc = IF Tail(k.pending) = <<>>
                                                   THEN "done" ELSE "running"]])
      /\ UNCHANGED <<matches, nextId, today, response, arg, out>>

(***************************************************************************)
(* find-matches, register and cleanOldData served at the same time         *)
(***************************************************************************)
\* the slots of the registrations: Monday and Tuesday 09:00-10:00 of the
\* week whose Monday is day 8
ConcSlots == << TimeSlot(1, T0900, T1000, 8), TimeSlot(2, T0900, T1000, 8) >>

\* the register requests that arrive: a@x submits the Tuesday slot or the
\* Monday slot as a mentor, b@x submits the Monday slot as a mentor
ConcRequests ==
  { [email |-> "a@x", userType |-> "mentor", slots |-> <<ConcSlots[2]>>,
     tags |-> <<"Accessibility">>],
    [email |-> "a@x", userType |-> "mentor", slots |-> <<ConcSlots[1]>>,
     tags |-> <<"Accessibility">>],
    [email |-> "b@x", userType |-> "mentor", slots |-> <<ConcSlots[1]>>,
     tags |-> <<"Accessibility">>] }

\* a@x is a stored mentor and b@x a stored mentee, each with the Monday slot,
\* registered on day 8; no request has arrived
InitConc ==
  /\ today = 8
  /\ users = {[id |-> uuid("a@x", 1), email |-> "a@x", user_type |-> "mentor"],
              [id |-> uuid("b@x", 1), email |-> "b@x", user_type |-> "mentee"]}
  /\ availability = availabilityRows(uuid("a@x", 1), <<ConcSlots[1]>>, getCurrentWeekKey)
                      \o availabilityRows(uuid("b@x", 1), <<ConcSlots[1]>>, getCurrentWeekKey)
  /\ abilities = abilityRows(uuid("a@x", 1), "mentor", <<"Accessibility">>, getCurrentWeekKey)
  /\ matches = <<>>
  /\ nextId = [e \in Emails |-> 2]
  /\ response = Null
  /\ arg = <<>>
  /\ out = <<>>
  /\ inflight = [find |-> Idle, reg1 |-> Idle, reg2 |-> Idle, clean |-> Idle]

NextConc ==
  \/ \E email \in Emails : FindArrives(uuid(email, 1))
  \/ FindUserQuery
  \/ FindOwnQuery
  \/ FindOtherQuery
  \/ FindAbilitiesQuery
  \/ \E p \in {"reg1", "reg2"}, req \in ConcRequests :
       RegisterArrives(p, req.email, req.userType, req.slots, req.tags)
  \/ \E p \in {"reg1", "reg2"} : RegisterLookup(p)
  \/ \E p \in {"reg1", "reg2"} : RegisterUserQuery(p)
  \/ \E p \in {"reg1", "reg2"} : RegisterDeleteAvailability(p)
  \/ \E p \in {"reg1", "reg2"} : RegisterDeleteAbilities(p)
  \/ \E p \in {"reg1", "reg2"} : RegisterInsert(p)
  \/ CleanArrives
  \/ CleanStatement

SpecConc == InitConc /\ [][NextConc]_vars

(***************************************************************************)
(* Reference notions used by the properties                                *)
(***************************************************************************)
\* the clock times of the model with their minutes since midnight
ClockTable ==
  { <<T0900, 540>>, <<T930, 570>>, <<T0930, 570>>, <<T0945, 585>>,
    <<T1000, 600>>, <<T1030, 630>>, <<T1100, 660>>, <<T1130, 690>> }

ClockMinutes(t) == (CHOOSE e \in ClockTable : e[1] = t)[2]

\* the zero-padded HH:MM string of a number of minutes
PaddedTime(m) == (CHOOSE e \in ClockTable : e[2] = m /\ Len(e[1]) = 5)[1]

\* the minute interval [lo, hi) in which two rows intersect
InterLo(r1, r2) == Max(ClockMinutes(r1.start_time), ClockMinutes(r2.start_time))

InterHi(r1, r2) == Min(ClockMinutes(r1.end_time), ClockMinutes(r2.end_time))

\* the Sunday on or before a day
WeekStart(day) == 7 * (day \div 7)

\* a find-matches request has been answered with a match list
Answered == response.op = "find-matches" /\ response.status = 200

Requester == CHOOSE u \in users : u.id = response.userId

\* indices of the requester's rows and of the rows of opposite-type users
RequesterRows == {i \in 1..Len(availability) : availability[i].user_id = response.userId}

PartnerRows ==
  {j \in 1..Len(availability) :
     \E u \in users : /\ u.id = availability[j].user_id
                      /\ u.user_type # Requester.user_type}

SameDayWeek(i, j) ==
  /\ availability[i].day_of_week = availability[j].day_of_week
  /\ availability[i].week_key = availability[j].week_key

\* the pairs of rows that qualify for a candidate
QualifyingPairs ==
  {pr \in RequesterRows \X PartnerRows :
     /\ SameDayWeek(pr[1], pr[2])
     /\ availability[pr[1]].week_key >= WeekStart(response.day)
     /\ InterHi(availability[pr[1]], availability[pr[2]])
          - InterLo(availability[pr[1]], availability[pr[2]]) >= 30}

\* what a candidate says, without its ability tags
Shown(c) == <<c.partnerId, c.partnerEmail, c.dayOfWeek, c.weekKey, c.startTime, c.endTime, c.duration>>

\* what the candidate of a pair of rows has to say
Expected(pr) ==
  LET r == availability[pr[1]]
      p == availability[pr[2]]
  IN  <<p.user_id, (CHOOSE u \in users : u.id = p.user_id).email, r.day_of_week, r.week_key,
        PaddedTime(InterLo(r, p)), PaddedTime(InterHi(r, p)), InterHi(r, p) - InterLo(r, p)>>

(***************************************************************************)
(* Properties                                                              *)
(***************************************************************************)
\* C1: for two slots whose minute intervals intersect, findTimeOverlap
\* returns the later start and the earlier end as zero-padded HH:MM, and
\* duration = minutes(end) - minutes(start)
C1_OverlapWindow ==
  out # <<>> =>
    LET lo == InterLo(arg[1], arg[2])
        hi == InterHi(arg[1], arg[2])
    IN  lo < hi =>
          /\ ~out[1].isNull
          /\ out[1].startTime = PaddedTime(lo)
          /\ out[1].endTime = PaddedTime(hi)
          /\ out[1].duration = hi - lo

\* 09:00-10:00 against 09:30-10:30 has given 09:30-10:00 with duration 30
C1_Witness ==
  /\ out # <<>>
  /\ arg[1].start_time = T0900 /\ arg[1].end_time = T1000
  /\ arg[2].start_time = T0930 /\ arg[2].end_time = T1030
  /\ out[1].startTime = T0930 /\ out[1].endTime = T1000 /\ out[1].duration = 30

C3_SameDayAndWeek ==
  Answered /\ response.day = today =>
    /\ \A k \in 1..Len(response.matches) :
         \E i \in RequesterRows, j \in PartnerRows :
           /\ SameDayWeek(i, j)
           /\ response.matches[k].dayOfWeek = availability[i].day_of_week
           /\ response.matches[k].weekKey = availability[i].week_key
           /\ response.matches[k].partnerId = availability[j].user_id
           /\ Shown(response.matches[k]) = Expected(<<i, j>>)
    /\ Len(response.matches)
         <= Cardinality({pr \in RequesterRows \X PartnerRows : SameDayWeek(pr[1], pr[2])})

\* a request was answered with one candidate while the partner also has the
\* requester's window in another current week
C3_Witness ==
  /\ Answered /\ response.day = today
  /\ Len(response.matches) = 1
  /\ \E i \in RequesterRows, j \in PartnerRows :
       /\ availability[i].start_time = availability[j].start_time
       /\ availability[i].end_time = availability[j].end_time
       /\ availability[i].day_of_week = availability[j].day_of_week
       /\ availability[i].week_key # availability[j].week_key
       /\ availability[i].week_key >= WeekStart(today)
       /\ availability[j].week_key >= WeekStart(today)

\* C4: find-matches never returns a candidate whose weekKey is older than
\* the current week key of the day of the request
C4_NoPastWeek ==
  Answered =>
    \A k \in 1..Len(response.matches) :
      response.matches[k].weekKey >= WeekStart(response.day)

\* after a week change and without a cleanup, a request was answered while
\* the requester and a partner both still have overlapping rows of the past week
C4_Witness ==
  /\ Answered /\ response.day = today
  /\ \E i \in RequesterRows, j \in PartnerRows :
       /\ SameDayWeek(i, j)
       /\ availability[i].week_key < WeekStart(today)
       /\ InterHi(availability[i], availability[j])
            - InterLo(availability[i], availability[j]) >= 30

\* C5: when at most 5 pairs qualify, the response has exactly one candidate
\* for every qualifying pair, with the partner slot's owner as partner, and
\* nothing else
C5_ExactlyThePairs ==
  (Answered /\ response.day = today /\ Cardinality(QualifyingPairs) <= 5) =>
    /\ Len(response.matches) = Cardinality(QualifyingPairs)
    /\ \A pr \in QualifyingPairs :
         Cardinality({k \in 1..Len(response.matches) : Shown(response.matches[k]) = Expected(pr)})
           = Cardinality({qr \in QualifyingPairs : Expected(qr) = Expected(pr)})

\* the end-to-end case: a mentor with Monday 09:00-10:00, a mentee with Monday
\* 09:30-10:30 of the same week, and the answer is the one candidate
\* Monday 09:30-10:00 of 30 minutes
C5_Witness ==
  /\ Answered /\ response.day = today
  /\ Len(response.matches) = 1
  /\ response.matches[1].dayOfWeek = 1
  /\ response.matches[1].startTime = T0930
  /\ response.matches[1].endTime = T1000
  /\ response.matches[1].duration = 30
  /\ \E i \in RequesterRows, j \in PartnerRows :
       /\ {availability[i].start_time, availability[j].start_time} = {T0900, T0930}
       /\ {availability[i].end_time, availability[j].end_time} = {T1000, T1030}
       /\ response.matches[1].partnerId = availability[j].user_id

\* (dayOfWeek, startTime, endTime) of a candidate
Window(c) == <<c.dayOfWeek, c.startTime, c.endTime>>

\* the positions of a raw list at which a window is seen for the first time
FirstSeen(ms) == {i \in 1..Len(ms) : \A j \in 1..(i - 1) : Window(ms[j]) # Window(ms[i])}

DaysOf(ms) == {ms[i].dayOfWeek : i \in 1..Len(ms)}

CountDay(ms, d) == Cardinality({k \in 1..Len(ms) : ms[k].dayOfWeek = d})

\* the first-seen candidates of day d of a raw list, in the order of the list
FirstSeenOfDay(ms, d) ==
  LET idx == {i \in FirstSeen(ms) : ms[i].dayOfWeek = d}
  IN  [k \in 1..Cardinality(idx) |->
         ms[CHOOSE i \in idx : Cardinality({j \in idx : j <= i}) = k]]

\* the day of rank-least rank in a set of days
LeastBy(days, rank) == CHOOSE d \in days : \A e \in days : rank[d] <= rank[e]

\* res serves the days of ms one candidate at a time in the cyclic order given
\* by rank, passing over the days that have no candidate left
ServesInOrder(res, ms, rank) ==
  LET days == DaysOf(ms)
      firsts == FirstSeen(ms)
      size == [d \in days |-> Cardinality({i \in firsts : ms[i].dayOfWeek = d})]
      left == [k \in 1..Len(res) |->
                 {d \in days : Cardinality({l \in 1..k : res[l].dayOfWeek = d}) < size[d]}]
      later == [k \in 1..Len(res) |-> {d \in left[k] : rank[d] > rank[res[k].dayOfWeek]}]
  IN  /\ Len(res) > 0 => res[1].dayOfWeek = LeastBy(days, rank)
      /\ \A k \in 1..(Len(res) - 1) :
           res[k + 1].dayOfWeek = IF later[k] # {} THEN LeastBy(later[k], rank)
                                  ELSE LeastBy(left[k], rank)

\* rank of a day by its first occurrence in the raw list
InsertionRank(ms) ==
  [d \in DaysOf(ms) |-> CHOOSE i \in 1..Len(ms) :
                          ms[i].dayOfWeek = d /\ \A j \in 1..(i - 1) : ms[j].dayOfWeek # d]

\* rank of a day by its number
AscendingRank(ms) == [d \in DaysOf(ms) |-> d]

\* C6: the returned list has at most 5 candidates and every one of them is
\* one of the raw candidates, none returned twice
C6_AtMostFiveOfRaw ==
  out # <<>> =>
    /\ Len(out[1]) <= 5
    /\ \A k \in 1..Len(out[1]) : \E i \in 1..Len(arg) : out[1][k] = arg[i]
    /\ \A k, l \in 1..Len(out[1]) : k # l => out[1][k] # out[1][l]

\* six candidates with six different windows were reduced to five
C6_Witness ==
  /\ out # <<>>
  /\ Len(arg) = 6
  /\ Cardinality(FirstSeen(arg)) = 6
  /\ Len(out[1]) = 5

\* C7: more than 5 deduplicated candidates give exactly 5; 6 or 7 candidates
\* of different days give 5 of which no two share a day
C7_ExactlyFive ==
  out # <<>> =>
    /\ Cardinality(FirstSeen(arg)) > 5 => Len(out[1]) = 5
    /\ (Len(arg) \in {6, 7} /\ Cardinality(DaysOf(arg)) = Len(arg)) =>
         /\ Len(out[1]) = 5
         /\ Cardinality(DaysOf(out[1])) = 5

\* seven candidates of seven days were reduced to five of five days
C7_Witness ==
  /\ out # <<>>
  /\ Len(arg) = 7
  /\ Cardinality(DaysOf(arg)) = 7
  /\ Len(out[1]) = 5
  /\ Cardinality(DaysOf(out[1])) = 5

\* C8: the list returned by find-matches has at most one candidate for each
\* triple (dayOfWeek, startTime, endTime), also when it has 5 or fewer
C8_OnePerWindow ==
  Answered =>
    \A k, l \in 1..Len(response.matches) :
      k # l => Window(response.matches[k]) # Window(response.matches[l])

\* C9: with more than 5 raw candidates, a day holds more than one candidate
\* more than another day only if all candidates of the other day are in the
\* result, and the candidates of one day are taken in first-seen order
C9_OnePerDayPerPass ==
  (out # <<>> /\ Len(arg) > 5) =>
    /\ \A d, e \in DaysOf(arg) :
         CountDay(out[1], d) > CountDay(out[1], e) + 1 =>
           CountDay(out[1], e) = Len(FirstSeenOfDay(arg, e))
    /\ \A d \in DaysOf(arg) :
         SelectSeq(out[1], LAMBDA c : c.dayOfWeek = d)
           = SubSeq(FirstSeenOfDay(arg, d), 1, CountDay(out[1], d))

\* of six different windows, four on Monday and two on Tuesday, three of
\* Monday and two of Tuesday were taken
C9_Witness ==
  /\ out # <<>>
  /\ Cardinality(FirstSeen(arg)) = 6
  /\ Len(FirstSeenOfDay(arg, 1)) = 4
  /\ CountDay(out[1], 1) = 3
  /\ CountDay(out[1], 2) = 2

\* C10 as stated: the day groups are visited in the order in which each
\* dayOfWeek first occurs among the candidates
C10_InsertionOrder ==
  (out # <<>> /\ Len(arg) > 5) => ServesInOrder(out[1], arg, InsertionRank(arg))

\* C10 amended: the day groups are visited in ascending order of dayOfWeek
C10_AscendingDayOrder ==
  (out # <<>> /\ Len(arg) > 5) => ServesInOrder(out[1], arg, AscendingRank(arg))

\* six candidates of six days whose first one is of the greatest day: the
\* limit was reached and that day was not served
C10_Witness ==
  /\ out # <<>>
  /\ Len(arg) = 6
  /\ Cardinality(DaysOf(arg)) = 6
  /\ \A i \in 2..Len(arg) : arg[i].dayOfWeek < arg[1].dayOfWeek
  /\ Len(out[1]) = 5
  /\ arg[1].dayOfWeek \notin DaysOf(out[1])

C12_NotFoundIffNoUser ==
  [][\A userId \in FaultIds, err \in DbErrors :
       (IF err = "none" THEN FindMatches(userId) ELSE FindMatchesFailing(userId, err)) =>
         /\ response'.status = 404 <=> ~(\E u \in users : u.id = userId)
         /\ response'.status = 404 => "matches" \notin DOMAIN response']_vars

\* C13: the find-matches request of a stored user is answered with 200, and
\* with an empty match list when the requester has no current or future
\* slot, when no user of the opposite type has one, or when no pair of their
\* slots of one day and week overlaps by at least 30 minutes
C13_EmptyNotError ==
  (response.op = "find-matches" /\ response.day = today
     /\ \E u \in users : u.id = response.userId) =>
    /\ response.status = 200
    /\ ( \/ ~(\E i \in RequesterRows : availability[i].week_key >= WeekStart(today))
         \/ ~(\E j \in PartnerRows : availability[j].week_key >= WeekStart(today))
         \/ QualifyingPairs = {} ) => response.matches = <<>>

\* a requester and a partner have current slots of the same day and week
\* that overlap by 15 minutes only, and the answer was the empty list
C13_Witness ==
  /\ Answered /\ response.day = today
  /\ response.matches = <<>>
  /\ \E i \in RequesterRows, j \in PartnerRows :
       /\ SameDayWeek(i, j)
       /\ availability[i].week_key >= WeekStart(today)
       /\ InterHi(availability[i], availability[j]) - InterLo(availability[i], availability[j]) = 15

\* the ability tags that the register request of a user of a type carries
SubmittedTags(userType) == CHOOSE tags \in AbilityLists(userType) : TRUE

\* the stored user who is the partner of a candidate
PartnerOf(c) == CHOOSE u \in users : u.id = c.partnerId

\* the partner of a candidate registered before the current week: no
\* abilities row of the partner carries the current week key
RegisteredEarlier(c) ==
  ~(\E i \in 1..Len(abilities) :
      /\ abilities[i].user_id = c.partnerId
      /\ abilities[i].week_key = WeekStart(today))

\* C14: every candidate returned to a mentee carries the ability tags that
\* its mentor partner submitted with the latest registration, and no
\* candidate returned to a mentor carries ability tags
C14_TagsOfPartner ==
  (Answered /\ response.day = today) =>
    \A k \in 1..Len(response.matches) :
      response.matches[k].abilities =
        IF Requester.user_type = "mentee"
        THEN <<SubmittedTags(PartnerOf(response.matches[k]).user_type)>>
        ELSE <<>>

\* C15: a candidate returned to a mentee carries the ability tags of its
\* mentor partner also when the mentor registered in a week before the
\* current one, whether or not cleanOldData has run since
C15_TagsOutliveWeek ==
  (Answered /\ response.day = today /\ Requester.user_type = "mentee") =>
    \A k \in 1..Len(response.matches) :
      RegisteredEarlier(response.matches[k]) =>
        response.matches[k].abilities =
          <<SubmittedTags(PartnerOf(response.matches[k]).user_type)>>

\* C20: a run of cleanOldData leaves no availability row and no abilities
\* row of a week before the current week key, and no user all of whose
\* availability rows were of such weeks
C20_WeeklyReset ==
  [][CleanOldData =>
       /\ \A i \in 1..Len(availability') : availability'[i].week_key >= WeekStart(today)
       /\ \A i \in 1..Len(abilities') : abilities'[i].week_key >= WeekStart(today)
       /\ \A u \in users :
            (\A i \in 1..Len(availability) :
               availability[i].user_id = u.id => availability[i].week_key < WeekStart(today))
              => u \notin users']_vars

\* after the week has changed cleanOldData has run: a user whose slots were
\* of the past week is gone, and a user with a slot of the new week is left
C20_Witness ==
  /\ response.op = "cleanOldData"
  /\ today = 7
  /\ Cardinality(users) = 2
  /\ availability # <<>>
  /\ \A i \in 1..Len(availability) : availability[i].week_key >= WeekStart(today)
  /\ abilities = <<>>

\* the rows of a user in the availability table, in rowid order
RowsOf(table, userId) == SelectSeq(table, LAMBDA r : r.user_id = userId)

\* the slots of the rows, each with the week it is stored for
SlotsOf(rows) ==
  [i \in 1..Len(rows) |->
     <<rows[i].day_of_week, rows[i].start_time, rows[i].end_time, rows[i].week_key>>]

\* the submitted slots, an omitted weekKey read as the current week key
SlotsSubmitted(slots) ==
  [i \in 1..Len(slots) |->
     <<slots[i].dayOfWeek, slots[i].startTime, slots[i].endTime,
       IF slots[i].weekKey = 0 THEN WeekStart(today) ELSE slots[i].weekKey>>]

\* the slots of a check-email response
SlotsReturned(list) ==
  [i \in 1..Len(list) |-> <<list[i].dayOfWeek, list[i].startTime, list[i].endTime, list[i].weekKey>>]

\* two lists hold the same slots equally often
SameSlots(s, t) ==
  /\ Len(s) = Len(t)
  /\ \A x \in {s[i] : i \in 1..Len(s)} \cup {t[i] : i \in 1..Len(t)} :
       Cardinality({i \in 1..Len(s) : s[i] = x}) = Cardinality({i \in 1..Len(t) : t[i] = x})

C19_StartBeforeEnd ==
  \A i \in 1..Len(availability) :
    ClockMinutes(availability[i].start_time) < ClockMinutes(availability[i].end_time)

\* C17: a find-matches request, whatever it answers, leaves the users,
\* availability, abilities and matches tables as they were, and a matches
\* row appears only with the success response of a send-invitation request
C17_FindMatchesWritesNothing ==
  [][/\ (response'.op = "find-matches" /\ response' # response) =>
          UNCHANGED <<users, availability, abilities, matches>>
     /\ matches' # matches =>
          /\ response'.op = "send-invitation" /\ response'.status = 200
          /\ Len(matches') = Len(matches) + 1
          /\ SubSeq(matches', 1, Len(matches)) = matches
          /\ matches'[Len(matches')].status = "sent"]_vars

\* a find-matches request was answered with a candidate while the matches
\* table holds the one row of an earlier invitation
C17_Witness ==
  /\ Answered /\ response.day = today
  /\ Len(response.matches) = 1
  /\ Len(matches) = 1
  /\ matches[1].status = "sent"

\* the Monday of the week (Monday to Sunday) of a date
MondayOf(date) == CHOOSE d \in (date - 6)..date : d % 7 = 1

\* C18: on every day the server's current week key is the Monday of the
\* week of today, the value of the client's getWeekKey
C18_MondayWeekKey ==
  out # <<>> => (out[1] = MondayOf(today) /\ out[1] = out[2])

\* the stored availability rows of a user, as the slots of a submission
storedSlotsOf(userId) ==
  transformedAvailability(SelectSeq(availability, LAMBDA r : r.user_id = userId))

\* C21: the answer of a find-matches request that is served while register
\* and cleanup requests are served is the answer that the stored data of one
\* single instant between its arrival and its response would give.
C21_SingleInstant ==
  inflight.find.pc = "done" => inflight.find.answer \in inflight.find.seen

\* C23: when two register requests for one registered email were served at
\* the same time and both answered success, the stored availability of that
\* user is the slot list of one of the two submissions.
C23_OneSubmission ==
  LET r1 == inflight.reg1
      r2 == inflight.reg2
  IN  ( /\ r1.pc = "done" /\ r2.pc = "done"
        /\ r1.answer.status = 200 /\ r2.answer.status = 200
        /\ r1.email = r2.email
        /\ inflight.clean.pc = "idle" )
      => storedSlotsOf(r1.userIdToUse) \in {r1.slots, r2.slots}

\* C24: once register has answered success, and no other register or cleanup
\* is served, every submitted slot is returned by check-email and every
\* submitted tag of a mentor is stored.
C24_StoredAtSuccess ==
  LET r == inflight.reg1
  IN  ( /\ r.pc \in {"inserting", "done"}
        /\ r.answer.status = 200
        /\ inflight.reg2.pc = "idle"
        /\ inflight.clean.pc = "idle" )
      => /\ \A resp \in checkEmailResponses(r.email) :
              /\ resp.exists
              /\ \A i \in 1..Len(r.slots) :
                   \E j \in 1..Len(resp.availability) : resp.availability[j] = r.slots[i]
         /\ r.userType = "mentor" =>
              \A i \in 1..Len(r.tags) :
                \E j \in 1..Len(abilities) :
                  abilities[j].user_id = r.userIdToUse /\ abilities[j].ability = r.tags[i]

\* C25: after a cleanup run and a register request that were served at the
\* same time have both finished, every availability row refers to a stored
\* user, and the user of a registration that answered success is found by
\* find-matches.
C25_NoOrphanRows ==
  LET r == inflight.reg1
  IN  ( /\ inflight.clean.pc = "done"
        /\ r.pc = "done"
        /\ inflight.reg2.pc = "idle" )
      => /\ \A i \in 1..Len(availability) : userById(availability[i].user_id) # {}
         /\ r.answer.status = 200 => findMatchesResponse(r.userIdToUse).status # 404

\* C29: no candidate of an answered find-matches request has the requester
\* as its partner, whatever register requests were served meanwhile.
C29_PartnerIsAnother ==
  LET f == inflight.find
  IN  (f.pc = "done" /\ f.answer.status = 200) =>
        \A i \in 1..Len(f.answer.matches) : f.answer.matches[i].partnerId # f.userId

\* C22: a register request with a slot whose weekKey is older than the
\* current week key is answered 400 and leaves the users, the availability
\* rows and the ability rows as they were; a request whose slots are of the
\* current week key or later, or have no weekKey, is answered success and
\* its slots are stored.
C22_PastWeekRejected ==
  [][\A email \in Emails, userType \in UserTypes, slots \in PastSlotLists :
       ( /\ response'.op = "register"
         /\ \E tags \in AbilityLists(userType) : Register(email, userType, slots, tags) )
       => IF \E i \in 1..Len(slots) :
               slots[i].weekKey # 0 /\ slots[i].weekKey < getCurrentWeekKey
          THEN /\ response'.status = 400
               /\ UNCHANGED <<users, availability, abilities, nextId>>
          ELSE /\ response'.status = 200
               /\ \A i \in 1..Len(slots) :
                    \E j \in 1..Len(availability') :
                      /\ availability'[j].user_id = response'.userId
                      /\ availability'[j].day_of_week = slots[i].dayOfWeek
                      /\ availability'[j].start_time = slots[i].startTime
                      /\ availability'[j].week_key =
                           IF slots[i].weekKey # 0 THEN slots[i].weekKey ELSE getCurrentWeekKey
    ]_vars

\* C22 witness: a request was answered 400 while a slot of the current week
\* key, accepted before, is stored.
C22_Witness ==
  /\ response.op = "register" /\ response.status = 400
  /\ \E j \in 1..Len(availability) : availability[j].week_key = getCurrentWeekKey

\* C27: a step adds a matches row only as a send-invitation that answers
\* success, and the row has status 'sent' and the ids of two stored users; a
\* send-invitation with a missing field or a failed email does not answer
\* success, and one that answers an error leaves the matches table unchanged.
C27_RecordedAfterSending ==
  [][/\ matches' # matches =>
          /\ response'.op = "send-invitation" /\ response'.status = 200
          /\ Len(matches') = Len(matches) + 1
          /\ SubSeq(matches', 1, Len(matches)) = matches
          /\ matches'[Len(matches')].status = "sent"
          /\ userById(matches'[Len(matches')].mentor_id) # {}
          /\ userById(matches'[Len(matches')].mentee_id) # {}
     /\ (response'.op = "send-invitation" /\ response'.status \in {400, 500}) =>
          matches' = matches
     /\ (response'.op = "send-invitation" /\ response'.status = 200) =>
          \A mentorEmail \in InviteEmails \cup {""}, menteeEmail \in InviteEmails \cup {""},
             scheduledTime \in {T0900, <<>>}, scheduledDate \in {8, 0},
             calendarOk \in BOOLEAN, mailOk \in BOOLEAN :
            ( \/ mentorEmail = "" \/ menteeEmail = ""
              \/ scheduledTime = <<>> \/ scheduledDate = 0 \/ ~mailOk )
            => ~SendInvitation(mentorEmail, menteeEmail, scheduledTime, scheduledDate,
                               calendarOk, mailOk)
    ]_vars

\* C27 witness: an invitation was answered with the error of a failed email
\* after another one had been recorded.
C27_Witness ==
  /\ response.op = "send-invitation" /\ response.status = 500
  /\ Len(matches) = 1 /\ matches[1].status = "sent"

\* C28: every candidate of find-matches starts before it ends, lasts
\* minutes(endTime) - minutes(startTime) >= 30 minutes, and lies inside a slot
\* of the requester and a slot of the partner of its day; also when stored
\* slots end before they start.
C28_WindowInsideBoth ==
  Answered /\ response.day = today =>
    \A k \in 1..Len(response.matches) :
      LET c == response.matches[k]
          lo == ClockMinutes(c.startTime)
          hi == ClockMinutes(c.endTime)
      IN  /\ lo < hi
          /\ c.duration = hi - lo
          /\ c.duration >= 30
          /\ \E i \in RequesterRows, j \in PartnerRows :
               /\ availability[j].user_id = c.partnerId
               /\ SameDayWeek(i, j)
               /\ availability[i].day_of_week = c.dayOfWeek
               /\ ClockMinutes(availability[i].start_time) <= lo
               /\ hi <= ClockMinutes(availability[i].end_time)
               /\ ClockMinutes(availability[j].start_time) <= lo
               /\ hi <= ClockMinutes(availability[j].end_time)

\* C28 witness: a request was answered with a candidate while the requester
\* or the partner also has a stored slot of that day that ends before it
\* starts.
C28_Witness ==
  /\ Answered /\ response.day = today
  /\ Len(response.matches) >= 1
  /\ \E i \in RequesterRows \cup PartnerRows :
       ClockMinutes(availability[i].start_time) > ClockMinutes(availability[i].end_time)

\* C26: the calendar event and the calendar link of an invitation are dated
\* on the day of the invited match, the day dayOfWeek of the week of the
\* match's weekKey.
C26_EventOnMatchDay ==
  (out # <<>> /\ arg # <<>>) => out[1] = getDateForWeekDay(arg.weekKey, arg.dayOfWeek)

\* C30: the week that the client selects initially is the first of the
\* weeks it offers, the offered weeks are consecutive, and the dates shown
\* for the selected week contain today.
C30_SelectedWeekOffered ==
  out # <<>> =>
    /\ out.found = 1
    /\ \A k \in 2..NumWeeks : out.availableWeeks[k] = out.availableWeeks[k - 1] + 7
    /\ \E i \in 1..7 : out.weekDates[i] = today /\ ~isDateInPast(out.weekDates[i])

====
